---- MODULE Spec2Model ----
(***************************************************************************)
(* TLA+ model of incremental-weather-etl/ingest_weatherbit.py: the         *)
(* Weatherbit fetch -> normalize -> bulk upsert pipeline.                  *)
(*                                                                         *)
(* Python strings are sequences of one-character strings, so that          *)
(* str.replace, str.endswith and f-string concatenation are computed.      *)
(* Python values are tagged records: Absent (the key is not in the dict),  *)
(* Null (None), Str, Num, Map (a dict) and Other (any other truthy value). *)
(***************************************************************************)
EXTENDS Integers, Sequences, FiniteSets, TLC

\* ------------------------------------------------------------------ bounds

\* Longest "data" list of a payload.
MaxBatch == 2
\* The wall clock is read as ClockStart seconds plus a number of half-second
\* ticks, at most MaxTick.
MaxTick == 1
ClockStart == 1700000000

\* ------------------------------------------------------------ Python values

Absent == [k |-> "absent"]
Null == [k |-> "null"]
Str(s) == [k |-> "str", s |-> s]
Num(n) == [k |-> "int", n |-> n]
Map(m) == [k |-> "map", m |-> m]
Other == [k |-> "other"]
Raise(e) == [k |-> "raise", exc |-> e]

IsRaise(v) == v.k = "raise"

\* dict.get(key): None when the key is absent.
PyGet(rec, key) == IF rec[key].k = "absent" THEN Null ELSE rec[key]

\* dict.get(key, default): the default only when the key is absent.
PyGetDefault(rec, key, dflt) == IF rec[key].k = "absent" THEN dflt ELSE rec[key]

\* Python truthiness of a value.
Truthy(v) ==
    CASE v.k = "null" -> FALSE
      [] v.k = "str" -> Len(v.s) > 0
      [] v.k = "int" -> v.n # 0
      [] v.k = "map" -> \E f \in DOMAIN v.m : v.m[f].k # "absent"
      [] OTHER -> TRUE

\* a or b
PyOr(a, b) == IF Truthy(a) THEN a ELSE b

\* str.replace(a, b) for one-character a and b.
StrReplace(s, a, b) == [i \in 1..Len(s) |-> IF s[i] = a THEN b ELSE s[i]]

\* str.endswith(c) for a one-character c.
EndsWith(s, c) == Len(s) > 0 /\ s[Len(s)] = c

Digits == <<"0", "1", "2", "3", "4", "5", "6", "7", "8", "9">>

RECURSIVE Pow10(_)
Pow10(e) == IF e = 0 THEN 1 ELSE 10 * Pow10(e - 1)

\* The decimal rendering of n, zero-padded to width w (%0wd).
Pad(n, w) == [i \in 1..w |-> Digits[((n \div Pow10(w - i)) % 10) + 1]]

\* int(str) for the strings the model draws: a non-empty string of decimal
\* digits is its value, any other string raises ValueError.
IsDigits(s) == Len(s) > 0 /\ \A i \in 1..Len(s) : \E d \in 1..10 : Digits[d] = s[i]

DigitVal(c) == (CHOOSE d \in 1..10 : Digits[d] = c) - 1

RECURSIVE ParseDigits(_)
ParseDigits(s) ==
    IF Len(s) = 0 THEN 0
    ELSE 10 * ParseDigits(SubSeq(s, 1, Len(s) - 1)) + DigitVal(s[Len(s)])

\* int(v)
PyInt(v) ==
    CASE v.k = "int" -> Num(v.n)
      [] v.k = "str" -> IF IsDigits(v.s) THEN Num(ParseDigits(v.s))
                        ELSE Raise("ValueError")
      [] OTHER -> Raise("TypeError")

\* ------------------------------------------------------------- timestamps

\* datetime.fromtimestamp(secs, tz=utc): the proleptic Gregorian date and
\* the time of day of an epoch second. z is the day number counted from
\* 0000-03-01, era the 400-year cycle, doe the day of the era, yoe the year of
\* the era, doy the day of the year that starts in March, mp its month.
CivilOfMonth(y, m, d, sod) ==
    [year |-> y + (IF m <= 2 THEN 1 ELSE 0), month |-> m, day |-> d,
     hour |-> sod \div 3600, minute |-> (sod % 3600) \div 60, second |-> sod % 60]

CivilOfMp(y, doy, mp, sod) ==
    CivilOfMonth(y, IF mp < 10 THEN mp + 3 ELSE mp - 9,
                 doy - (153 * mp + 2) \div 5 + 1, sod)

CivilOfDoy(y, doy, sod) == CivilOfMp(y, doy, (5 * doy + 2) \div 153, sod)

CivilOfYoe(era, doe, yoe, sod) ==
    CivilOfDoy(yoe + era * 400, doe - (365 * yoe + yoe \div 4 - yoe \div 100), sod)

CivilOfDoe(era, doe, sod) ==
    CivilOfYoe(era, doe,
               (doe - doe \div 1460 + doe \div 36524 - doe \div 146096) \div 365, sod)

CivilOfZ(z, sod) == CivilOfDoe(z \div 146097, z % 146097, sod)

CivilOfEpoch(secs) == CivilOfZ(secs \div 86400 + 719468, secs % 86400)

\* datetime.isoformat() of a UTC datetime with "+00:00" replaced by "Z";
\* the microseconds are printed only when they are not zero.
IsoOfCivil(c, usec) ==
    Pad(c.year, 4) \o <<"-">> \o Pad(c.month, 2) \o <<"-">> \o Pad(c.day, 2)
    \o <<"T">> \o Pad(c.hour, 2) \o <<":">> \o Pad(c.minute, 2)
    \o <<":">> \o Pad(c.second, 2)
    \o (IF usec = 0 THEN <<>> ELSE <<".">> \o Pad(usec, 6))
    \o <<"Z">>

IsoFormatZ(secs, usec) == IsoOfCivil(CivilOfEpoch(secs), usec)

\* The wall clock at tick t: half seconds after ClockStart.
ClockSecs(t) == ClockStart + t \div 2
ClockUsec(t) == (t % 2) * 500000

now_utc_iso(t) == Str(IsoFormatZ(ClockSecs(t), ClockUsec(t)))

IsoOfInt(n) == IF IsRaise(n) THEN n ELSE Str(IsoFormatZ(n.n, 0))

ts_to_iso_utc(ts) == IsoOfInt(PyInt(ts))

\* ---------------------------------------------------------------- fetcher

\* The keys of a raw record that the model keeps: the three human-readable
\* timestamp aliases, the epoch, the two station fields that fetch_hourly_24
\* merges in, the nested weather mapping and one metric (temp); the other
\* metrics are read exactly as temp is.
RawKeys == {"timestamp_utc", "datetime", "ob_time", "ts", "city_name",
            "country_code", "weather", "temp"}

\* raise_for_status as it would be if only server errors raised.
RaiseForServerErrors(status) == 500 <= status /\ status < 600

\* Response.raise_for_status(): HTTPError for a 4xx or 5xx status only.
raise_for_status(status) == 400 <= status /\ status < 600

\* {**rec, **meta}: every key of meta replaces the record's own.
MergeMeta(rec, meta) ==
    [f \in DOMAIN rec |-> IF f \in DOMAIN meta THEN meta[f] ELSE rec[f]]

\* payload.get("data", []) or []
DataOf(got) == IF got.k = "list" /\ Len(got.items) > 0 THEN got.items ELSE <<>>

\* The records of lines 52-61: the metadata merged into every element.
Flatten(data, meta) == [i \in 1..Len(data) |-> MergeMeta(data[i], meta)]

\* fetch_hourly_24 after requests.get returned resp: the flattened records,
\* or the exception raised.
fetch_hourly_24(resp) ==
    IF raise_for_status(resp.status) THEN [ok |-> FALSE, exc |-> "HTTPError"]
    ELSE IF resp.body.k # "json" THEN [ok |-> FALSE, exc |-> "JSONDecodeError"]
    ELSE [ok |-> TRUE,
          records |->
            Flatten(DataOf(PyGetDefault(resp.body.payload, "data",
                                        [k |-> "list", items |-> <<>>])),
                    [city_name |-> PyGet(resp.body.payload, "city_name"),
                     country_code |-> PyGet(resp.body.payload, "country_code")])]

\* -------------------------------------------------------------- normalizer

UNKNOWN == <<"U", "N", "K", "N", "O", "W", "N">>

\* rec.get("timestamp_utc") or rec.get("datetime") or rec.get("ob_time")
DtStr(rec) ==
    PyOr(PyOr(PyGet(rec, "timestamp_utc"), PyGet(rec, "datetime")),
         PyGet(rec, "ob_time"))

\* ts_to_iso_utc(...) or now_utc_iso(), with e what ts_to_iso_utc gave.
OrNow(e, tnow) == IF IsRaise(e) THEN e ELSE PyOr(e, now_utc_iso(tnow))

\* The timestamp as it would be resolved if the epoch were tried before the
\* human-readable fields.
DtIsoEpochFirst(rec, dt_str, tnow) ==
    IF rec["ts"].k # "absent" THEN OrNow(ts_to_iso_utc(rec["ts"]), tnow)
    ELSE IF Truthy(dt_str) /\ ~EndsWith(dt_str.s, "Z")
    THEN Str(StrReplace(dt_str.s, " ", "T") \o <<"Z">>)
    ELSE IF Truthy(dt_str) THEN dt_str
    ELSE OrNow(ts_to_iso_utc(Num(0)), tnow)

\* The timestamp resolved by normalize (lines 67-73) from dt_str. The
\* conditional expression binds weakest: the "or" chain is its else branch as
\* a whole, and it is evaluated lazily. tnow is the clock a call of
\* now_utc_iso() there would read.
DtIso(rec, dt_str, tnow) ==
    IF Truthy(dt_str) /\ dt_str.k # "str" THEN Raise("AttributeError")
    ELSE IF Truthy(dt_str) /\ ~EndsWith(dt_str.s, "Z")
    THEN Str(StrReplace(dt_str.s, " ", "T") \o <<"Z">>)
    ELSE IF Truthy(dt_str) THEN dt_str
    ELSE OrNow(ts_to_iso_utc(PyGetDefault(rec, "ts", Num(0))), tnow)

ResolveDt(rec, tnow) == DtIso(rec, DtStr(rec), tnow)

\* The identifier as it would be without the separator.
MakeIdNoSeparator(city, dt_iso) == Str(city.s \o dt_iso.s)

\* f"{city}|{dt_iso}"
MakeId(city, dt_iso) == Str(city.s \o <<"|">> \o dt_iso.s)

\* wx.get(key) if isinstance(wx, dict) else None
WxGet(wx, key) == IF wx.k = "map" THEN PyGet(wx.m, key) ELSE Null

\* The document of lines 79-120, or the exception that resolving the
\* timestamp raised.
BuildDoc(rec, dt_iso, city, wx, t1, t2) ==
    IF IsRaise(dt_iso) THEN [ok |-> FALSE, exc |-> dt_iso.exc]
    ELSE [ok |-> TRUE,
          doc |-> [_id |-> MakeId(city, dt_iso),
                   provider |-> "weatherbit",
                   city |-> city,
                   country |-> PyOr(PyGet(rec, "country_code"), Str(<<>>)),
                   dt |-> dt_iso,
                   temp_c |-> PyGet(rec, "temp"),
                   conditions |-> WxGet(wx, "description"),
                   weather_code |-> WxGet(wx, "code"),
                   weather_icon |-> WxGet(wx, "icon"),
                   ingestedAt |-> now_utc_iso(t1),
                   updatedAt |-> now_utc_iso(t2)]]

\* normalize(rec), with t1 and t2 the clock read for ingestedAt and updatedAt.
normalize(rec, t1, t2) ==
    BuildDoc(rec, ResolveDt(rec, t1),
             PyOr(PyGet(rec, "city_name"), Str(UNKNOWN)),
             PyOr(PyGet(rec, "weather"),
                  Map([description |-> Absent, code |-> Absent, icon |-> Absent])),
             t1, t2)

\* ------------------------------------------------------------------ writer

\* The update as it would be if ingestedAt were written on insert only.
SetFieldsKeepIngestedAt(old, d) ==
    [f \in DOMAIN old \cup DOMAIN d |->
       IF f \in DOMAIN d /\ f # "ingestedAt" THEN d[f] ELSE old[f]]

\* {"$set": d} applied to a stored document: every field of d is written.
SetFields(old, d) ==
    [f \in DOMAIN old \cup DOMAIN d |-> IF f \in DOMAIN d THEN d[f] ELSE old[f]]

\* The unique compound index on (city, dt) of line 34: another stored
\* document already holds the key of doc.
UniqueIndexRejects(others, doc) ==
    \E x \in others : x.city = doc.city /\ x.dt = doc.dt

\* The update branch as it would be if the new document were added beside
\* the stored one.
UpdateMatchedAddsDoc(coll, old, new) ==
    IF new = old THEN [coll |-> coll, kind |-> "matched"]
    ELSE [coll |-> coll \cup {new}, kind |-> "modified"]

\* The update branch of the upsert: old is the stored document matched.
UpdateMatched(coll, old, new) ==
    IF new = old THEN [coll |-> coll, kind |-> "matched"]
    ELSE IF UniqueIndexRejects(coll \ {old}, new)
    THEN [coll |-> coll, kind |-> "duplicate_key"]
    ELSE [coll |-> (coll \ {old}) \cup {new}, kind |-> "modified"]

\* The insert branch of the upsert.
InsertNew(coll, d) ==
    IF UniqueIndexRejects(coll, d)
    THEN [coll |-> coll, kind |-> "duplicate_key"]
    ELSE [coll |-> coll \cup {d}, kind |-> "upserted"]

\* The stored document the filter {"_id": id} matches.
Stored(coll, id) == CHOOSE x \in coll : x._id = id

\* UpdateOne({"_id": d["_id"]}, {"$set": d}, upsert=True) applied to the
\* collection as one atomic single-document write: the collection after it and
\* what the server reports for the operation.
UpdateOneUpsert(coll, d) ==
    IF \E x \in coll : x._id = d._id
    THEN UpdateMatched(coll, Stored(coll, d._id), SetFields(Stored(coll, d._id), d))
    ELSE InsertNew(coll, d)

\* The result as it would be if every matched document counted as modified.
CountOpMatchedAsModified(res, kind) ==
    [upserted_count |-> res.upserted_count + (IF kind = "upserted" THEN 1 ELSE 0),
     modified_count |-> res.modified_count
                        + (IF kind \in {"matched", "modified"} THEN 1 ELSE 0),
     matched_count |-> res.matched_count
                       + (IF kind \in {"matched", "modified"} THEN 1 ELSE 0)]

\* BulkWriteResult after one more operation of the given kind.
CountOp(res, kind) ==
    [upserted_count |-> res.upserted_count + (IF kind = "upserted" THEN 1 ELSE 0),
     modified_count |-> res.modified_count + (IF kind = "modified" THEN 1 ELSE 0),
     matched_count |-> res.matched_count
                       + (IF kind \in {"matched", "modified"} THEN 1 ELSE 0)]

\* The value upsert_batch returns (line 129).
ChangedCount(res) == res.upserted_count + res.modified_count

\* ------------------------------------------------------------------ inputs

BlankRaw == [f \in RawKeys |-> Absent]

\* The hourly records a payload's "data" list is drawn from, in the order of
\* their hours: one with a UTC-tagged timestamp and an epoch, one with a
\* timestamp that is not tagged, one whose epoch is null.
HourlySamples ==
    << [BlankRaw EXCEPT !.timestamp_utc = Str(<<"C", "Z">>), !.ts = Num(60),
                        !.temp = Num(5), !.city_name = Str(<<"X">>)],
       [BlankRaw EXCEPT !.datetime = Str(<<"B", "|", "C">>),
                        !.weather = Map([description |-> Str(<<"r">>),
                                         code |-> Num(500), icon |-> Absent])],
       [BlankRaw EXCEPT !.ts = Null] >>

CitySamples == {Str(<<"A">>), Str(<<"A", "|", "B">>)}

\* The "data" lists of at most n hourly records, in the order of their hours
\* (the same hour may come twice).
RECURSIVE HourlyLists(_)
HourlyLists(n) ==
    IF n = 0 THEN {<<>>}
    ELSE LET shorter == HourlyLists(n - 1)
         IN  shorter \cup
             {Append(q, h) : q \in {x \in shorter : Len(x) = n - 1},
                             h \in 1..Len(HourlySamples)}

IsOrdered(q) == \A i \in 1..(Len(q) - 1) : q[i] <= q[i + 1]

\* The JSON payloads of the API: the station fields and the "data" list,
\* which may be missing.
Payloads ==
    { [city_name |-> c, country_code |-> Absent, data |-> d] :
        c \in CitySamples,
        d \in {Absent} \cup
              {[k |-> "list", items |-> [i \in 1..Len(q) |-> HourlySamples[q[i]]]] :
                 q \in {x \in HourlyLists(MaxBatch) : IsOrdered(x)}} }

JsonBody(payload) == [k |-> "json", text |-> "<json>", payload |-> payload]
TextBody(text) == [k |-> "text", text |-> text]

\* What requests.get can return: a success with a JSON payload or with a
\* body that is not JSON, a 3xx answer that is not followed, and 4xx and 5xx
\* answers.
Responses ==
    {[status |-> 200, body |-> JsonBody(pl)] : pl \in Payloads}
    \cup {[status |-> st, body |-> TextBody("server error")] :
            st \in {200, 300, 404, 500}}

\* The environment a process starts in: whether the password and cluster
\* variables are set and whether the store answers create_index.
Environments == [password : BOOLEAN, cluster : BOOLEAN, store_up : BOOLEAN]

\* The independent process invocations that share the collection.
Runs == {"r1", "r2"}

\* ------------------------------------------------------------------- state

VARIABLES
    clock,       \* the wall clock, in ticks
    indexes,     \* the indexes of the collection
    collection,  \* the stored documents
    pc,          \* where each run is
    resp,        \* the status and body text of the response each run got
    records,     \* main's records
    docs,        \* main's docs
    pending,     \* the operations of the bulk write not yet applied
    result,      \* the BulkWriteResult so far
    werrors,     \* the write errors of the bulk write so far
    log,         \* what each run printed
    ledger,      \* history: per identifier, the run that created the
                 \* document and the run that wrote it last
    noop,        \* history: the operations of each run that left the
                 \* collection as it was
    nrec,        \* the raw record normalize is applied to on its own
    nout         \* what that call returned

vars == <<clock, indexes, collection, pc, resp, records, docs, pending, result,
          werrors, log, ledger, noop, nrec, nout>>

pipeVars == <<indexes, collection, pc, resp, records, docs, pending, result,
              werrors, log, ledger, noop>>

NoResp == [status |-> 0, text |-> ""]
NoResult == [upserted_count |-> 0, modified_count |-> 0, matched_count |-> 0]
NotCalled == [k |-> "none"]

PipeInit ==
    /\ clock = 0
    /\ indexes = {}
    /\ collection = {}
    /\ pc = [p \in Runs |-> "boot"]
    /\ resp = [p \in Runs |-> NoResp]
    /\ records = [p \in Runs |-> <<>>]
    /\ docs = [p \in Runs |-> <<>>]
    /\ pending = [p \in Runs |-> {}]
    /\ result = [p \in Runs |-> NoResult]
    /\ werrors = [p \in Runs |-> {}]
    /\ log = [p \in Runs |-> <<>>]
    /\ ledger = {}
    /\ noop = [p \in Runs |-> 0]

Init ==
    /\ PipeInit
    /\ nrec = BlankRaw
    /\ nout = NotCalled

\* A read of the wall clock: the clock has not gone back since the last one.
ClockReads(from) == from..(IF from < MaxTick THEN from + 1 ELSE MaxTick)

\* ---------------------------------------------------------------- pipeline

\* Lines 9-34, run when the module is loaded, outside main's try: the
\* configuration is read, the connection string built, the client made and
\* the two indexes created. An exception here is not caught by anything.
Startup(p) ==
    /\ pc[p] = "boot"
    /\ \E env \in Environments :
         LET exc == IF ~env.password THEN "TypeError"
                    ELSE IF ~env.cluster THEN "ConfigurationError"
                    ELSE IF ~env.store_up THEN "ServerSelectionTimeoutError"
                    ELSE "none"
         IN  IF exc = "none"
             THEN /\ indexes' = indexes \cup {"updatedAt_1", "city_1_dt_1"}
                  /\ pc' = [pc EXCEPT ![p] = "main"]
                  /\ log' = log
             ELSE /\ indexes' = indexes
                  /\ pc' = [pc EXCEPT ![p] = "crashed"]
                  /\ log' = [log EXCEPT ![p] =
                               Append(@, [kind |-> "traceback", exc |-> exc])]
    /\ UNCHANGED <<clock, collection, resp, records, docs, pending, result,
                   werrors, ledger, noop, nrec, nout>>

InfoLine == [kind |-> "info"]

\* main, lines 134-138 with the handlers of lines 144-149: the URL is
\* printed and fetch_hourly_24 called; requests.get returned r.
Fetch(p) ==
    /\ pc[p] = "main"
    /\ \E r \in Responses :
         LET f == fetch_hourly_24(r)
         IN  /\ resp' = [resp EXCEPT ![p] = [status |-> r.status,
                                             text |-> r.body.text]]
             /\ IF f.ok
                THEN /\ records' = [records EXCEPT ![p] = f.records]
                     /\ log' = [log EXCEPT ![p] = Append(@, InfoLine)]
                     /\ pc' = [pc EXCEPT ![p] = "fetched"]
                ELSE /\ records' = records
                     /\ pc' = [pc EXCEPT ![p] = "done"]
                     /\ log' = [log EXCEPT ![p] =
                          IF f.exc = "HTTPError"
                          THEN @ \o <<InfoLine,
                                      [kind |-> "http_error", status |-> r.status],
                                      [kind |-> "debug_body", text |-> r.body.text]>>
                          ELSE @ \o <<InfoLine, [kind |-> "error", exc |-> f.exc]>>]
    /\ UNCHANGED <<clock, indexes, collection, docs, pending, result, werrors,
                   ledger, noop, nrec, nout>>

\* requests.get itself raises (no connection, the 20 s timeout): the generic
\* handler of line 148.
FetchConnectionError(p) ==
    /\ pc[p] = "main"
    /\ pc' = [pc EXCEPT ![p] = "done"]
    /\ log' = [log EXCEPT ![p] =
                 @ \o <<InfoLine, [kind |-> "error", exc |-> "ConnectionError"]>>]
    /\ UNCHANGED <<clock, indexes, collection, resp, records, docs, pending,
                   result, werrors, ledger, noop, nrec, nout>>

SummaryLine(fetched, changed) ==
    [kind |-> "summary", fetched |-> fetched, changed |-> changed]

\* The j-th read of the clock during the list comprehension of line 139,
\* when the clock, at c before it, moves on after the k-th read.
Reading(c, k, j) == IF j <= k THEN c ELSE c + 1

\* The clock moves on at most once while a batch is normalized: before its
\* first read (0), between the two reads of its first record (1), or not at
\* all (2n).
Cuts(c, n) == IF c < MaxTick THEN {0, 1, 2 * n} \cap 0..(2 * n) ELSE {2 * n}

\* The index of the first record whose normalize raised, 0 when none did.
FirstBad(outs) ==
    IF \A i \in 1..Len(outs) : outs[i].ok THEN 0
    ELSE CHOOSE i \in 1..Len(outs) :
           ~outs[i].ok /\ \A j \in 1..(i - 1) : outs[j].ok

\* Lines 139-140 up to the call of bulk_write, with outs what normalize gave
\* for each record and bad the first that raised: an exception leaves docs
\* unassigned and goes to the generic handler. upsert_batch returns 0 for an
\* empty batch without calling the store (lines 124-125), otherwise it builds
\* the operations and hands them to bulk_write.
Normalized(p, k, outs, bad) ==
    /\ clock' = IF bad = 1 \/ Len(outs) = 0 THEN clock
                ELSE Reading(clock, k, 2 * (IF bad = 0 THEN Len(outs) ELSE bad - 1))
    /\ IF bad # 0
       THEN /\ pc' = [pc EXCEPT ![p] = "done"]
            /\ log' = [log EXCEPT ![p] =
                         Append(@, [kind |-> "error", exc |-> outs[bad].exc])]
            /\ UNCHANGED <<docs, pending>>
       ELSE /\ docs' = [docs EXCEPT ![p] = [i \in 1..Len(outs) |-> outs[i].doc]]
            /\ IF Len(outs) = 0
               THEN /\ pc' = [pc EXCEPT ![p] = "done"]
                    /\ log' = [log EXCEPT ![p] = Append(@, SummaryLine(0, 0))]
                    /\ pending' = pending
               ELSE /\ pc' = [pc EXCEPT ![p] = "bulk"]
                    /\ pending' = [pending EXCEPT ![p] = 1..Len(outs)]
                    /\ log' = log

NormalizeAll(recs, c, k) ==
    [i \in 1..Len(recs) |->
       normalize(recs[i], Reading(c, k, 2 * i - 1), Reading(c, k, 2 * i))]

NormalizedFrom(p, k, outs) == Normalized(p, k, outs, FirstBad(outs))

\* The list comprehension of line 139 (two reads of the clock for each
\* record) and the call of upsert_batch of line 140.
NormalizeBatch(p) ==
    /\ pc[p] = "fetched"
    /\ \E k \in Cuts(clock, Len(records[p])) :
         NormalizedFrom(p, k, NormalizeAll(records[p], clock, k))
    /\ UNCHANGED <<indexes, collection, resp, records, result, werrors, ledger,
                   noop, nrec, nout>>

\* The ledger after an operation of run p, of the given kind, wrote d.
Recorded(led, d, kind, p) ==
    CASE kind = "upserted" ->
           led \cup {[id |-> d._id, creator |-> p, latest |-> p]}
      [] kind \in {"matched", "modified"} ->
           {IF e.id = d._id THEN [e EXCEPT !.latest = p] ELSE e : e \in led}
      [] OTHER -> led

\* What main prints once bulk_write is over: lines 129 and 142 when it
\* returned, the generic handler of line 148 when it raised BulkWriteError
\* because an operation was rejected.
AfterBulk(p, res, errs) ==
    IF errs = {}
    THEN Append(log[p], SummaryLine(Len(records[p]), ChangedCount(res)))
    ELSE Append(log[p], [kind |-> "error", exc |-> "BulkWriteError"])

\* The server applied operation i of the bulk write with outcome u; after
\* the last one bulk_write is over.
Applied(p, i, u, res, errs) ==
    /\ collection' = u.coll
    /\ result' = [result EXCEPT ![p] = res]
    /\ werrors' = [werrors EXCEPT ![p] = errs]
    /\ pending' = [pending EXCEPT ![p] = @ \ {i}]
    /\ ledger' = Recorded(ledger, docs[p][i], u.kind, p)
    /\ noop' = [noop EXCEPT ![p] = IF u.coll = collection THEN @ + 1 ELSE @]
    /\ IF pending[p] = {i}
       THEN /\ pc' = [pc EXCEPT ![p] = "done"]
            /\ log' = [log EXCEPT ![p] = AfterBulk(p, res, errs)]
       ELSE UNCHANGED <<pc, log>>

AppliedAs(p, i, u) ==
    Applied(p, i, u, CountOp(result[p], u.kind),
            IF u.kind = "duplicate_key" THEN werrors[p] \cup {i} ELSE werrors[p])

\* The server applies one operation of the unordered bulk write of line 128:
\* any of those left.
BulkOp(p) ==
    /\ pc[p] = "bulk"
    /\ \E i \in pending[p] : AppliedAs(p, i, UpdateOneUpsert(collection, docs[p][i]))
    /\ UNCHANGED <<clock, indexes, resp, records, docs, nrec, nout>>

\* The store cannot be reached when bulk_write is called: it raises, nothing
\* is written, the generic handler logs.
BulkAbort(p) ==
    /\ pc[p] = "bulk"
    /\ pending[p] = 1..Len(docs[p])
    /\ pc' = [pc EXCEPT ![p] = "done"]
    /\ log' = [log EXCEPT ![p] = Append(@, [kind |-> "error", exc |-> "AutoReconnect"])]
    /\ UNCHANGED <<clock, indexes, collection, resp, records, docs, pending,
                   result, werrors, ledger, noop, nrec, nout>>

Next ==
    \E p \in Runs :
        \/ Startup(p)
        \/ Fetch(p)
        \/ FetchConnectionError(p)
        \/ NormalizeBatch(p)
        \/ BulkOp(p)
        \/ BulkAbort(p)

Spec == Init /\ [][Next]_vars

\* ------------------------------------------------- normalize, on its own

\* The raw records normalize is applied to: every combination of these values
\* of the keys.
NormSamples ==
    [ timestamp_utc : {Absent, Null, Str(<<>>), Str(<<"1", " ", "2">>),
                       Str(<<"1", " ", "2", "Z">>)},
      datetime : {Absent, Str(<<"3", " ", "4", " ", "5">>), Str(<<"Z">>)},
      ob_time : {Absent, Str(<<"6", "T", "7">>)},
      ts : {Absent, Null, Num(0), Num(951782400), Num(-1), Str(<<"6", "0">>),
            Str(<<"x">>)},
      city_name : {Absent, Null, Str(<<>>), Str(<<"A">>)},
      country_code : {Absent, Str(<<"D", "E">>)},
      weather : {Absent, Null, Other,
                 Map([description |-> Str(<<"r">>), code |-> Num(500),
                      icon |-> Str(<<"i">>)]),
                 Map([description |-> Str(<<"r">>), code |-> Absent,
                      icon |-> Absent])},
      temp : {Absent, Num(5)} ]

InitNormalize ==
    /\ PipeInit
    /\ nrec \in NormSamples
    /\ nout = NotCalled

Returned(out, t1, t2) == [k |-> "returned", out |-> out, t1 |-> t1, t2 |-> t2]

\* normalize(nrec) is called: the clock is read for the two bookkeeping fields
\* unless resolving the timestamp raised before.
CallNormalize ==
    /\ nout = NotCalled
    /\ \E t1 \in ClockReads(clock) : \E t2 \in ClockReads(t1) :
         /\ nout' = Returned(normalize(nrec, t1, t2), t1, t2)
         /\ clock' = IF nout'.out.ok THEN t2 ELSE clock
    /\ UNCHANGED <<nrec, pipeVars>>

NextNormalize == CallNormalize

SpecNormalize == InitNormalize /\ [][NextNormalize]_vars

\* ------------------------------------------------------------------ claims

\* The ISO-8601 UTC renderings of the epochs the records carry, written out.
Iso1970 ==
    <<"1", "9", "7", "0", "-", "0", "1", "-", "0", "1", "T", "0", "0", ":", "0", "0", ":", "0", "0", "Z">>

Iso1970Minute ==
    <<"1", "9", "7", "0", "-", "0", "1", "-", "0", "1", "T", "0", "0", ":", "0", "1", ":", "0", "0", "Z">>

Iso2000Leap ==
    <<"2", "0", "0", "0", "-", "0", "2", "-", "2", "9", "T", "0", "0", ":", "0", "0", ":", "0", "0", "Z">>

Iso1969 ==
    <<"1", "9", "6", "9", "-", "1", "2", "-", "3", "1", "T", "2", "3", ":", "5", "9", ":", "5", "9", "Z">>

NonEmptyStr(v) == v.k = "str" /\ Len(v.s) > 0

NoHumanReadable(rec) ==
    /\ ~NonEmptyStr(rec.timestamp_utc)
    /\ ~NonEmptyStr(rec.datetime)
    /\ ~NonEmptyStr(rec.ob_time)

\* h rewritten as the policy says: unchanged when it ends in "Z", otherwise
\* every space replaced by "T" and "Z" appended.
IsTagged(h, dt) ==
    IF h[Len(h)] = "Z" THEN dt = h
    ELSE /\ Len(dt) = Len(h) + 1
         /\ dt[Len(dt)] = "Z"
         /\ \A i \in 1..Len(h) : dt[i] = (IF h[i] = " " THEN "T" ELSE h[i])

\* C1: a record with none of timestamp_utc, datetime, ob_time and no ts is
\* given the wall-clock time of the call as dt, and as the timestamp part of
\* _id.
C1_FallbackIsCurrentTime ==
    ( /\ nout.k = "returned"
      /\ nrec.timestamp_utc = Absent /\ nrec.datetime = Absent
      /\ nrec.ob_time = Absent /\ nrec.ts = Absent )
    => /\ nout.out.ok
       /\ nout.out.doc.dt = Str(IsoFormatZ(ClockSecs(nout.t1), ClockUsec(nout.t1)))
       /\ nout.out.doc._id.s = nout.out.doc.city.s \o <<"|">> \o nout.out.doc.dt.s

\* C2: timestamp resolution is first match wins. When timestamp_utc, else
\* datetime, else ob_time is a non-empty string, normalize returns and dt is
\* that string alone (unchanged when it ends in "Z", otherwise spaces replaced
\* by "T" and "Z" appended) whatever ts is; when none is and ts is an epoch, dt
\* is its ISO-8601 UTC rendering (0 gives 1970-01-01T00:00:00Z).
C2_FirstMatchWins ==
    nout.k = "returned" =>
      /\ NonEmptyStr(nrec.timestamp_utc) =>
           nout.out.ok /\ IsTagged(nrec.timestamp_utc.s, nout.out.doc.dt.s)
      /\ (~NonEmptyStr(nrec.timestamp_utc) /\ NonEmptyStr(nrec.datetime)) =>
           nout.out.ok /\ IsTagged(nrec.datetime.s, nout.out.doc.dt.s)
      /\ ( /\ ~NonEmptyStr(nrec.timestamp_utc) /\ ~NonEmptyStr(nrec.datetime)
           /\ NonEmptyStr(nrec.ob_time) ) =>
           nout.out.ok /\ IsTagged(nrec.ob_time.s, nout.out.doc.dt.s)
      /\ (NoHumanReadable(nrec) /\ nrec.ts = Num(0)) =>
           nout.out.ok /\ nout.out.doc.dt.s = Iso1970
      /\ (NoHumanReadable(nrec) /\ nrec.ts = Num(951782400)) =>
           nout.out.ok /\ nout.out.doc.dt.s = Iso2000Leap
      /\ (NoHumanReadable(nrec) /\ nrec.ts = Num(-1)) =>
           nout.out.ok /\ nout.out.doc.dt.s = Iso1969
      /\ (NoHumanReadable(nrec) /\ nrec.ts = Str(<<"6", "0">>)) =>
           nout.out.ok /\ nout.out.doc.dt.s = Iso1970Minute

\* C2's case: a record with a human-readable timestamp and an epoch was
\* normalized, and the human-readable one was taken.
C2_Witness ==
    /\ nout.k = "returned"
    /\ nrec.timestamp_utc = Str(<<"1", " ", "2">>)
    /\ nrec.ts = Num(951782400)
    /\ nout.out.ok
    /\ nout.out.doc.dt.s = <<"1", "T", "2", "Z">>

\* The values of a raw record's keys are absent, null or of the provider's
\* type.
WellTyped(rec) == rec.ts.k \in {"absent", "null", "int"} \/ rec.ts = Str(<<"6", "0">>)

\* C9: normalize is total. Whatever keys are absent or null, it returns one
\* document without raising; a missing metric is null, a missing city is
\* "UNKNOWN", and conditions, weather_code and weather_icon are null when
\* weather is not a mapping.
C9_NormalizeTotal ==
    (nout.k = "returned" /\ WellTyped(nrec)) =>
      /\ nout.out.ok
      /\ nrec.temp.k \in {"absent", "null"} => nout.out.doc.temp_c = Null
      /\ nrec.city_name.k \in {"absent", "null"} => nout.out.doc.city = Str(UNKNOWN)
      /\ nrec.weather.k # "map" =>
           /\ nout.out.doc.conditions = Null
           /\ nout.out.doc.weather_code = Null
           /\ nout.out.doc.weather_icon = Null

\* ------------------------------------------------------- claims, pipeline

Ids(coll) == {d._id : d \in coll}

UniqueIds(coll) == \A d1, d2 \in coll : d1._id = d2._id => d1 = d2

BatchDocs(p) == {docs[p][i] : i \in 1..Len(docs[p])}

\* Every document a run produced or the collection holds.
AllDocs == collection \cup UNION {BatchDocs(p) : p \in Runs}

\* The run printed the summary line: fetch, normalize and write completed.
Succeeded(p) ==
    /\ pc[p] = "done"
    /\ Len(log[p]) > 0
    /\ log[p][Len(log[p])].kind = "summary"

RECURSIVE SumOver(_, _)
SumOver(f, S) ==
    IF S = {} THEN 0
    ELSE LET x == CHOOSE y \in S : TRUE IN f[x] + SumOver(f, S \ {x})

\* C3: the stored document's ingestedAt is the value written by the run that
\* created it, and its updatedAt the value written by the latest run.
C3_IngestedAtSetOnce ==
    \A d \in collection :
      \E e \in ledger :
        /\ e.id = d._id
        /\ \E x \in BatchDocs(e.creator) : x._id = d._id /\ x.ingestedAt = d.ingestedAt
        /\ \E x \in BatchDocs(e.latest) : x._id = d._id /\ x.updatedAt = d.updatedAt

\* C4: the collection holds at most one document per _id; no identifier that
\* was ever created is missing from it; and only the operations that created
\* an identifier added a document: a write to a stored _id adds none.
C4_UpsertIdempotent ==
    /\ UniqueIds(collection)
    /\ Ids(collection) = {e.id : e \in ledger}
    /\ Cardinality(collection) = SumOver([p \in Runs |-> result[p].upserted_count], Runs)

\* C4's case: a run wrote a document whose _id was stored already and changed
\* its fields, and the collection still holds one document.
C4_Witness ==
    /\ \E p \in Runs : result[p].modified_count > 0
    /\ Cardinality(collection) = 1

\* C5, as claimed: after a non-empty batch whose writes all succeeded the
\* count printed is the number of distinct identifiers of the batch.
C5_CountIsDistinctIds ==
    \A p \in Runs :
      (Succeeded(p) /\ docs[p] # <<>>) =>
        log[p][Len(log[p])].changed = Cardinality(Ids(BatchDocs(p)))

\* C5, amended: after a non-empty batch whose writes all succeeded the count
\* printed is upserted_count + modified_count, which is the number of the
\* batch's operations that inserted a document or changed a stored field
\* value: an operation that left the collection as it was is not counted.
C5_CountIsEffectiveWrites ==
    \A p \in Runs :
      (Succeeded(p) /\ docs[p] # <<>>) =>
        /\ log[p][Len(log[p])].changed
             = result[p].upserted_count + result[p].modified_count
        /\ log[p][Len(log[p])].changed = Len(docs[p]) - noop[p]
        /\ result[p].upserted_count + result[p].matched_count = Len(docs[p])

\* C5's case: a batch was written with success and one of its documents was
\* identical to what was stored.
C5_Witness ==
    \E p \in Runs : Succeeded(p) /\ docs[p] # <<>> /\ noop[p] > 0

HttpErrorLog(p) ==
    <<InfoLine, [kind |-> "http_error", status |-> resp[p].status],
      [kind |-> "debug_body", text |-> resp[p].text]>>

\* The run stopped in the fetch stage: nothing normalized, upsert_batch not
\* called, no operation of the run applied to the collection.
StoppedInFetch(p) ==
    /\ pc[p] = "done"
    /\ records[p] = <<>>
    /\ docs[p] = <<>>
    /\ pending[p] = {}
    /\ result[p] = NoResult
    /\ noop[p] = 0

C7_NothingPastTopLevel ==
    \A p \in Runs :
      /\ pc[p] # "crashed"
      /\ pc[p] = "done" =>
           log[p][Len(log[p])].kind \in {"summary", "error", "debug_body"}

\* C8: with the operations of two runs interleaved, no operation is rejected
\* (so neither bulk write raises BulkWriteError), the collection holds one
\* document per identifier, every stored document is, field for field, a
\* document of one of the runs, and once both runs have printed their summary
\* the stored identifiers are those of the two batches.
C8_ConcurrentRunsSafe ==
    /\ \A p \in Runs :
         /\ werrors[p] = {}
         /\ \A i \in 1..Len(log[p]) : log[p][i] # [kind |-> "error", exc |-> "BulkWriteError"]
    /\ UniqueIds(collection)
    /\ \A d \in collection : \E p \in Runs : d \in BatchDocs(p)
    /\ (\A p \in Runs : Succeeded(p)) =>
         Ids(collection) = UNION {Ids(BatchDocs(p)) : p \in Runs}

\* C8's case: both bulk writes are under way on batches with a common
\* identifier, one run has created the document and the other has overwritten
\* it.
C8_Witness ==
    \E p, q \in Runs :
      /\ p # q
      /\ pc[p] = "bulk" /\ pc[q] = "bulk"
      /\ result[p].upserted_count = 1
      /\ result[q].modified_count = 1
      /\ Ids(BatchDocs(p)) \cap Ids(BatchDocs(q)) # {}

HasSeparator(v) == \E i \in 1..Len(v.s) : v.s[i] = "|"

SameKey(d1, d2) == d1.city = d2.city /\ d1.dt = d2.dt

\* Every stored document has _id = city + "|" + dt and no operation was
\* rejected by the unique index on (city, dt).
StoredIdsWellFormed ==
    /\ \A d \in collection : d._id.s = d.city.s \o <<"|">> \o d.dt.s
    /\ \A p \in Runs : werrors[p] = {}

\* C10, as claimed: two documents have the same _id exactly when they have
\* the same (city, dt); stored documents have _id = city + "|" + dt and no
\* upsert is rejected by the unique index.
C10_IdInjective ==
    /\ \A d1, d2 \in AllDocs : (d1._id = d2._id) <=> SameKey(d1, d2)
    /\ StoredIdsWellFormed

\* C10, amended: _id is a function of (city, dt): the same (city, dt) gives
\* the same _id, and the same _id gives the same (city, dt) when "|" is in
\* neither city; stored documents have _id = city + "|" + dt and no upsert is
\* rejected by the unique index.
C10_IdFunctionOfKey ==
    /\ \A d1, d2 \in AllDocs :
         /\ SameKey(d1, d2) => d1._id = d2._id
         /\ (d1._id = d2._id /\ ~HasSeparator(d1.city) /\ ~HasSeparator(d2.city))
              => SameKey(d1, d2)
    /\ StoredIdsWellFormed

\* C10's case: two runs produced documents for the same (city, dt), the
\* second upsert found the first one's document by its _id, and nothing was
\* rejected.
C10_Witness ==
    \E p, q \in Runs :
      /\ p # q
      /\ Succeeded(p) /\ Succeeded(q)
      /\ \E d1 \in BatchDocs(p), d2 \in BatchDocs(q) :
           SameKey(d1, d2) /\ d1 # d2 /\ d2 \in collection
      /\ result[q].matched_count > 0

====
